---- MODULE Spec2Model ----
(***************************************************************************)
(* Model of streamlit_app.py: extract_frames (the per-video sampling loop) *)
(* and main (the batch orchestration over a thread pool, the totals, the   *)
(* archive step).                                                          *)
(*                                                                         *)
(* Abstractions:                                                           *)
(*  - a video is what the decoder reports for it: its file name, the value *)
(*    of CAP_PROP_FPS, the number of frames cap.read() delivers, and the   *)
(*    value of CAP_PROP_POS_MSEC / 1000 at open (the code's                *)
(*    video_duration).  Rates and positions are integers.                  *)
(*  - a file name is the sequence of its tokens, <<"a", ".", "mp4">>, so   *)
(*    that split('.') is computed and not assumed.                         *)
(*  - an output file name f"{video_name}_frame_{ts}.jpg" is the record of  *)
(*    its two fields (the format is injective: video_name holds no '.').   *)
(*  - one iteration of the while loop of extract_frames is one step; the   *)
(*    only effect of an iteration other runs can see is its one imwrite.   *)
(*  - progress.progress(v) raises for v outside 0..100 (Streamlit's        *)
(*    contract for an int argument).                                       *)
(*  - a frame whose resize or encode raises (cv2.error) is a property of   *)
(*    the video: the set "bad" of its frame indices.                       *)
(*  - ThreadPoolExecutor() runs at most MaxWorkers tasks at a time and     *)
(*    takes them from its queue in submission order.                       *)
(***************************************************************************)
EXTENDS Integers, Sequences, FiniteSets

VARIABLES
    uploaded_files,       \* main: the uploaded batch, a sequence of videos
    target_fps,           \* main: the slider value
    pass,                 \* 1 for the first execution of main, 2 for the re-run
    prev,                 \* what each run of the first execution left behind
    mpc,                  \* main: where the script is
    run,                  \* per submitted video: the state of extract_frames
    reads,                \* per video: number of cap.read() calls made
    written,              \* per video: the imwrite calls its run made (file, frame)
    warnings,             \* videos for which "Skipping ..." was shown (line 20)
    files,                \* the output folder: file name -> content
    collected,            \* indices as_completed has yielded so far
    lines,                \* the per-video "Extracted ..." lines written by main
    total_saved_frames,   \* main: running total
    total_duration,       \* main: running total
    reported,             \* the totals shown by main (empty until line 150)
    archive               \* arcnames written into frames.zip

vars == <<uploaded_files, target_fps, pass, prev, mpc, run, reads, written,
          warnings, files, collected, lines, total_saved_frames, total_duration,
          reported, archive>>

----------------------------------------------------------------------------
(* Bounds *)

MaxBatch == 2
MaxTargetFps == 3
MaxTotalFrames == 153

(* Program constants *)

MinTargetFps == 1
Percent == 100

\* ThreadPoolExecutor(): max_workers defaults to min(32, cpu_count + 4);
\* this is its value on a host with one processor
MaxWorkers == 5

----------------------------------------------------------------------------
(* Inputs *)

Names == { <<"a", ".", "mp4">>, <<"a", ".", "avi">>, <<"b", ".", "mp4">> }

\* What the decoder reports: fps = CAP_PROP_FPS, frames = number of
\* successful cap.read() calls, pos_sec = CAP_PROP_POS_MSEC / 1000 at open,
\* bad = the frames on which cv2.resize or cv2.imencode raises.
Profiles ==
    { [fps |-> 0,  frames |-> 3,   pos_sec |-> 0,   bad |-> {}],
      [fps |-> 2,  frames |-> 3,   pos_sec |-> 0,   bad |-> {}],
      [fps |-> 2,  frames |-> 3,   pos_sec |-> 2,   bad |-> {}],
      [fps |-> 2,  frames |-> 3,   pos_sec |-> 1,   bad |-> {1}],
      [fps |-> -2, frames |-> 3,   pos_sec |-> 2,   bad |-> {}],
      [fps |-> 30, frames |-> 150, pos_sec |-> 149, bad |-> {}] }

Videos ==
    { [name |-> n, fps |-> p.fps, frames |-> p.frames, pos_sec |-> p.pos_sec,
       bad |-> p.bad] :
        n \in Names, p \in Profiles }

RECURSIVE SumFrames(_)
SumFrames(s) == IF s = <<>> THEN 0 ELSE Head(s).frames + SumFrames(Tail(s))

Batches ==
    { b \in UNION { [1..n -> Videos] : n \in 0..MaxBatch } :
        /\ \A i, j \in DOMAIN b : i # j => b[i].name # b[j].name
        /\ SumFrames(b) <= MaxTotalFrames }

----------------------------------------------------------------------------
(* Python arithmetic *)

Abs(x) == IF x < 0 THEN -x ELSE x

\* int(a / b): true division, then truncation towards zero (b # 0)
TruncDiv(a, b) ==
    IF (a >= 0) = (b > 0) THEN Abs(a) \div Abs(b) ELSE -(Abs(a) \div Abs(b))

\* a // b: floor division (b # 0)
PyFloorDiv(a, b) == IF b > 0 THEN a \div b ELSE (-a) \div (-b)

\* a % b: the sign follows the divisor (b # 0)
PyMod(a, b) == a - b * PyFloorDiv(a, b)

----------------------------------------------------------------------------
(* extract_frames: pure parts *)

VideoPath(v) == <<"temp_dir", v.name>>

Basename(path) == path[Len(path)]

FirstDot(s) ==
    IF \E i \in 1..Len(s) : s[i] = "."
    THEN CHOOSE i \in 1..Len(s) : s[i] = "." /\ \A j \in 1..(i - 1) : s[j] # "."
    ELSE Len(s) + 1

VideoName(path) == SubSeq(Basename(path), 1, FirstDot(Basename(path)) - 1)

\* a variant without the check of line 19
UnreadableNever(original_fps) == FALSE

Unreadable(original_fps) == original_fps = 0

FrameInterval(original_fps, tfps) == TruncDiv(original_fps, tfps)

Kept(frame_count, frame_interval) == PyMod(frame_count, frame_interval) = 0

Timestamp(frame_count, original_fps) == PyFloorDiv(frame_count, original_fps)

\* a variant that numbers the files by their position in the output folder
ImageFilenameByCount(video_name, frame_count, original_fps) ==
    [video_name |-> video_name, ts |-> Cardinality(DOMAIN files)]

ImageFilename(video_name, frame_count, original_fps) ==
    [video_name |-> video_name, ts |-> Timestamp(frame_count, original_fps)]

ProgressValue(frame_count, video_duration) ==
    (frame_count * Percent) \div video_duration

ProgressAccepts(value) == value \in 0..Percent

\* lines 45-51: resize and encode of a kept frame go through
TransformOk(v, frame_count) == frame_count \notin v.bad

\* a variant that steps over a frame
AdvanceTwice(frame_count) == frame_count + 2

\* line 62
Advance(frame_count) == frame_count + 1

----------------------------------------------------------------------------
(* State *)

Idx == DOMAIN uploaded_files

\* raised: the statement of extract_frames that raised, if one did
NoRun == [state |-> "Idle", cap_open |-> FALSE, frame_interval |-> 0,
          frame_count |-> 0, saved_frames |-> 0, ret |-> "pending",
          raised |-> "none"]

Terminal(i) == run[i].state \in {"Done", "Skipped", "Failed"}

\* line 126: task i has a worker thread once fewer than MaxWorkers of the
\* tasks submitted before it are unfinished
WorkerFree(i) ==
    Cardinality({ j \in Idx : j < i /\ ~Terminal(j) }) < MaxWorkers

\* a variant that leaves the loop after the first result
FirstCollected(c) == c # {}

\* line 143: the as_completed loop ends when every future was yielded
AllCollected(c) == c = Idx

Fresh(b) ==
    /\ run = [i \in DOMAIN b |-> NoRun]
    /\ reads = [i \in DOMAIN b |-> 0]
    /\ written = [i \in DOMAIN b |-> {}]
    /\ warnings = {}
    /\ files = << >>
    /\ collected = {}
    /\ lines = << >>
    /\ total_saved_frames = 0
    /\ total_duration = 0
    /\ reported = << >>
    /\ archive = {}

Init ==
    /\ uploaded_files \in Batches
    /\ target_fps \in MinTargetFps..MaxTargetFps
    /\ pass = 1
    /\ prev = << >>
    /\ mpc = "start"
    /\ Fresh(uploaded_files)

----------------------------------------------------------------------------
(* main *)

\* line 121: if uploaded_files
Begin ==
    /\ mpc = "start"
    /\ mpc' = IF Len(uploaded_files) = 0 THEN "done" ELSE "submitting"
    /\ UNCHANGED <<uploaded_files, target_fps, pass, prev, run, reads, written,
                   warnings, files, collected, lines, total_saved_frames, total_duration,
                   reported, archive>>

\* lines 128-138: save the next uploaded file and submit its task;
\* lines 141-142 after the last one
Submit ==
    /\ mpc = "submitting"
    /\ \E i \in Idx :
        /\ run[i].state = "Idle"
        /\ \A j \in Idx : j < i => run[j].state # "Idle"
        /\ run' = [run EXCEPT ![i].state = "Queued"]
        /\ mpc' = IF i = Len(uploaded_files) THEN "collecting" ELSE "submitting"
    /\ total_saved_frames' = 0
    /\ total_duration' = 0
    /\ UNCHANGED <<uploaded_files, target_fps, pass, prev, reads, written,
                   warnings, files, collected, lines, reported, archive>>

\* lines 143-147: as_completed yields a finished future; future.result()
\* re-raises what the task raised, and unpacking None raises TypeError
Collect(i) ==
    /\ mpc = "collecting"
    /\ i \in Idx \ collected
    /\ Terminal(i)
    /\ collected' = collected \cup {i}
    /\ IF run[i].ret = "tuple"
       THEN /\ total_saved_frames' = total_saved_frames + run[i].saved_frames
            /\ total_duration' = total_duration + uploaded_files[i].pos_sec
            /\ lines' = Append(lines, [video |-> i,
                                       saved_frames |-> run[i].saved_frames])
            /\ mpc' = IF AllCollected(collected') THEN "report" ELSE "collecting"
       ELSE /\ mpc' = "unwinding"
            /\ UNCHANGED <<total_saved_frames, total_duration, lines>>
    /\ UNCHANGED <<uploaded_files, target_fps, pass, prev, run, reads, written,
                   warnings, files, reported, archive>>

\* the exception leaves the two with blocks: the executor waits for every
\* submitted task, the temporary directory is removed
Abort ==
    /\ mpc = "unwinding"
    /\ \A i \in Idx : Terminal(i)
    /\ mpc' = "aborted"
    /\ files' = << >>
    /\ UNCHANGED <<uploaded_files, target_fps, pass, prev, run, reads, written,
                   warnings, collected, lines, total_saved_frames, total_duration,
                   reported, archive>>

\* lines 150-151
Report ==
    /\ mpc = "report"
    /\ reported' = <<total_saved_frames>>
    /\ mpc' = "archive"
    /\ UNCHANGED <<uploaded_files, target_fps, pass, prev, run, reads, written,
                   warnings, files, collected, lines, total_saved_frames, total_duration,
                   archive>>

\* a variant whose walk misses one file of the output folder
ArchiveStepMissesOne ==
    /\ mpc = "archive"
    /\ archive' = IF files = << >> THEN {}
                  ELSE DOMAIN files \ {CHOOSE f \in DOMAIN files : TRUE}
    /\ mpc' = "download"
    /\ UNCHANGED <<uploaded_files, target_fps, pass, prev, run, reads, written,
                   warnings, files, collected, lines, total_saved_frames, total_duration,
                   reported>>

\* lines 154-161: every file of the output folder, under its relative path
ArchiveStep ==
    /\ mpc = "archive"
    /\ archive' = DOMAIN files
    /\ mpc' = "download"
    /\ UNCHANGED <<uploaded_files, target_fps, pass, prev, run, reads, written,
                   warnings, files, collected, lines, total_saved_frames, total_duration,
                   reported>>

\* lines 164-170, then the temporary directory is removed
Finish ==
    /\ mpc = "download"
    /\ mpc' = "done"
    /\ files' = << >>
    /\ UNCHANGED <<uploaded_files, target_fps, pass, prev, run, reads, written,
                   warnings, collected, lines, total_saved_frames, total_duration,
                   reported, archive>>

\* lines 172-173: the script is executed again with the same inputs
Rerun ==
    /\ mpc \in {"done", "aborted"}
    /\ pass = 1
    /\ pass' = 2
    /\ prev' = [i \in Idx |-> [state |-> run[i].state,
                               saved_frames |-> run[i].saved_frames,
                               written |-> written[i]]]
    /\ mpc' = "start"
    /\ run' = [i \in Idx |-> NoRun]
    /\ reads' = [i \in Idx |-> 0]
    /\ written' = [i \in Idx |-> {}]
    /\ warnings' = {}
    /\ files' = << >>
    /\ collected' = {}
    /\ lines' = << >>
    /\ total_saved_frames' = 0
    /\ total_duration' = 0
    /\ reported' = << >>
    /\ archive' = {}
    /\ UNCHANGED <<uploaded_files, target_fps>>

----------------------------------------------------------------------------
(* extract_frames *)

\* lines 13-28: open, read the properties, skip on fps 0, else set up the scan
Open(i) ==
    /\ run[i].state = "Queued"
    /\ WorkerFree(i)
    /\ IF Unreadable(uploaded_files[i].fps)
       THEN /\ run' = [run EXCEPT ![i].state = "Skipped",
                                  ![i].cap_open = TRUE,
                                  ![i].ret = "None"]
            /\ warnings' = warnings \cup {i}
       ELSE /\ run' = [run EXCEPT ![i].state = "Scanning",
                                  ![i].cap_open = TRUE,
                                  ![i].frame_interval =
                                      FrameInterval(uploaded_files[i].fps, target_fps),
                                  ![i].frame_count = 0,
                                  ![i].saved_frames = 0]
            /\ UNCHANGED warnings
    /\ UNCHANGED <<uploaded_files, target_fps, pass, prev, mpc, reads, written,
                   files, collected, lines, total_saved_frames, total_duration,
                   reported, archive>>

\* lines 38-62: one iteration in which cap.read() delivers a frame
Frame(i) ==
    LET v == uploaded_files[i]
        r == run[i]
        fn == ImageFilename(VideoName(VideoPath(v)), r.frame_count, v.fps)
    IN
    /\ r.state = "Scanning"
    /\ r.frame_count < v.frames
    /\ reads' = [reads EXCEPT ![i] = @ + 1]
    /\ IF r.frame_interval = 0
       THEN \* line 43: ZeroDivisionError
            /\ run' = [run EXCEPT ![i].state = "Failed", ![i].ret = "raise",
                                  ![i].raised = "modulo"]
            /\ UNCHANGED <<files, written>>
       ELSE IF Kept(r.frame_count, r.frame_interval)
               /\ ~TransformOk(v, r.frame_count)
       THEN \* lines 46, 51: cv2.error, nothing catches it
            /\ run' = [run EXCEPT ![i].state = "Failed", ![i].ret = "raise",
                                  ![i].raised = "transform"]
            /\ UNCHANGED <<files, written>>
       ELSE LET keep == Kept(r.frame_count, r.frame_interval)
                saved == IF keep THEN r.saved_frames + 1 ELSE r.saved_frames
                ok == /\ v.pos_sec # 0
                      /\ ProgressAccepts(ProgressValue(r.frame_count, v.pos_sec))
            IN
            /\ IF keep
               THEN /\ files' = [f \in DOMAIN files \cup {fn} |->
                                   IF f = fn
                                   THEN [video |-> i, frame |-> r.frame_count]
                                   ELSE files[f]]
                    /\ written' = [written EXCEPT ![i] =
                                       @ \cup {[file |-> fn, frame |-> r.frame_count]}]
               ELSE UNCHANGED <<files, written>>
            /\ IF ok
               THEN run' = [run EXCEPT ![i].saved_frames = saved,
                                       ![i].frame_count = Advance(@)]
               ELSE \* line 60: ZeroDivisionError, or the value is rejected
                    run' = [run EXCEPT ![i].saved_frames = saved,
                                       ![i].state = "Failed",
                                       ![i].ret = "raise",
                                       ![i].raised = "progress"]
    /\ UNCHANGED <<uploaded_files, target_fps, pass, prev, mpc, warnings,
                   collected, lines, total_saved_frames, total_duration, reported, archive>>

\* lines 38-41, 64-65: cap.read() fails, the loop ends, the handle is released
EndOfStream(i) ==
    /\ run[i].state = "Scanning"
    /\ run[i].frame_count >= uploaded_files[i].frames
    /\ reads' = [reads EXCEPT ![i] = @ + 1]
    /\ run' = [run EXCEPT ![i].state = "Done",
                          ![i].cap_open = FALSE,
                          ![i].ret = "tuple"]
    /\ UNCHANGED <<uploaded_files, target_fps, pass, prev, mpc, written,
                   warnings, files, collected, lines, total_saved_frames, total_duration,
                   reported, archive>>

----------------------------------------------------------------------------

Next ==
    \/ Begin
    \/ Submit
    \/ \E i \in Idx : Collect(i)
    \/ Abort
    \/ Report
    \/ ArchiveStep
    \/ Finish
    \/ Rerun
    \/ \E i \in Idx : Open(i)
    \/ \E i \in Idx : Frame(i)
    \/ \E i \in Idx : EndOfStream(i)

Spec == Init /\ [][Next]_vars

----------------------------------------------------------------------------
(* A batch larger than the default pool: MaxWorkers + 1 uploads of one      *)
(* content under different names, either empty streams or streams whose     *)
(* position at open is 0.                                                    *)

PoolStems == <<"p1", "p2", "p3", "p4", "p5", "p6">>

PoolProfiles ==
    { [fps |-> 2, frames |-> 0, pos_sec |-> 0, bad |-> {}],
      [fps |-> 2, frames |-> 3, pos_sec |-> 0, bad |-> {}] }

PoolBatches ==
    { [k \in 1..(MaxWorkers + 1) |->
          [name |-> <<PoolStems[k], ".", "mp4">>, fps |-> p.fps,
           frames |-> p.frames, pos_sec |-> p.pos_sec, bad |-> p.bad]] :
        p \in PoolProfiles }

InitPool ==
    /\ uploaded_files \in PoolBatches
    /\ target_fps \in MinTargetFps..MaxTargetFps
    /\ pass = 1
    /\ prev = << >>
    /\ mpc = "start"
    /\ Fresh(uploaded_files)

PoolSpec == InitPool /\ [][Next]_vars

----------------------------------------------------------------------------
(* Vocabulary of the properties *)

MainTerminated == mpc \in {"done", "aborted"}

NonEmptyBatch == Len(uploaded_files) > 0

\* video i has an entry of its own in what main shows: its "Extracted ..."
\* line, or the "Skipping ..." warning of its run
HasLine(i) == \E k \in DOMAIN lines : lines[k].video = i

Reported(i) == HasLine(i) \/ i \in warnings

FileNames(i) == { w.file : w \in written[i] }

KeptFrames(i) == { w.frame : w \in written[i] }

Max(a, b) == IF a >= b THEN a ELSE b

RECURSIVE SumSaved(_)
SumSaved(S) ==
    IF S = {} THEN 0
    ELSE LET i == CHOOSE x \in S : TRUE
         IN run[i].saved_frames + SumSaved(S \ {i})

SumOk == SumSaved({ i \in Idx : run[i].state = "Done" })

\* the indices the sampling policy of the specification keeps
ExpectedKept(v, tfps) ==
    { k \in 0..(v.frames - 1) : k % Max(1, v.fps \div tfps) = 0 }

----------------------------------------------------------------------------
(* C1: a batch of one unreadable video (fps 0) and one valid video of 30 fps *)
(* and 150 frames, with target_fps = 1, is not aborted: when main has        *)
(* ended, it ended normally with one entry per video (the skipped one and    *)
(* the one with 5 saved frames) and a reported total of 5.                   *)
C1_UnreadableDoesNotAbort ==
    \A i, j \in Idx :
        ( /\ Len(uploaded_files) = 2
          /\ target_fps = 1
          /\ uploaded_files[i].fps = 0
          /\ uploaded_files[j].fps = 30
          /\ uploaded_files[j].frames = 150
          /\ run[j].state = "Done"
          /\ MainTerminated )
        => /\ mpc = "done"
           /\ Reported(i) /\ ~HasLine(i)
           /\ \E k \in DOMAIN lines :
                 lines[k].video = j /\ lines[k].saved_frames = 5
           /\ reported = <<5>>

(* C2: when a run has failed and main has ended, every submitted run has    *)
(* terminated, every submitted video has its entry in what main shows, and  *)
(* main did not end by the exception.                                        *)
C2_NoPartialResultLoss ==
    ( /\ MainTerminated
      /\ \E i \in Idx : run[i].state = "Failed" )
    => /\ \A j \in Idx : Terminal(j) /\ Reported(j)
       /\ mpc = "done"

(* C3: no terminated run of extract_frames (Done, Skipped or Failed) still  *)
(* holds its video handle open.                                              *)
C3_HandleReleased ==
    \A i \in Idx : Terminal(i) => ~run[i].cap_open

(* C4: two distinct videos of a batch never write the same output file      *)
(* name.                                                                     *)
C4_DisjointFileNames ==
    \A i, j \in Idx : i # j => FileNames(i) \cap FileNames(j) = {}

(* C5: with target_fps >= fps > 0 the frame interval is 1, every frame read *)
(* so far has been kept, and the run does not fail.                          *)
C5_EveryFrameKept ==
    \A i \in Idx :
        ( /\ uploaded_files[i].fps > 0
          /\ target_fps >= uploaded_files[i].fps
          /\ run[i].state \in {"Scanning", "Done", "Failed"} )
        => /\ run[i].frame_interval = 1
           /\ run[i].state # "Failed"
           /\ KeptFrames(i) = 0..(run[i].frame_count - 1)

(* C6: a terminated run on a video of fps r > 0 with N frames has kept      *)
(* exactly the indices k < N with k mod max(1, floor(r / t)) = 0, each      *)
(* under the timestamp floor(k / r), and counted as many saved frames.      *)
C6_SamplingPolicy ==
    \A i \in Idx :
        (Terminal(i) /\ uploaded_files[i].fps > 0)
        => LET v == uploaded_files[i] IN
           /\ KeptFrames(i) = ExpectedKept(v, target_fps)
           /\ \A w \in written[i] : w.file.ts = w.frame \div v.fps
           /\ run[i].saved_frames = Cardinality(ExpectedKept(v, target_fps))

(* C7: the run on a video of fps 0 never scans: it makes no read, writes no *)
(* file, saves no frame, leaves no file of its own in the output folder,    *)
(* and the only state it terminates in is Skipped.                           *)
C7_ZeroFpsSkipped ==
    \A i \in Idx :
        uploaded_files[i].fps = 0
        => /\ run[i].state \in {"Idle", "Queued", "Skipped"}
           /\ reads[i] = 0
           /\ written[i] = {}
           /\ run[i].saved_frames = 0
           /\ \A f \in DOMAIN files : files[f].video # i

\* a skipped run next to a run of the same video name that has written files
C7_Witness ==
    \E i, j \in Idx :
        /\ uploaded_files[i].fps = 0
        /\ run[i].state = "Skipped"
        /\ j # i
        /\ VideoName(VideoPath(uploaded_files[j])) =
               VideoName(VideoPath(uploaded_files[i]))
        /\ written[j] # {}
        /\ files # << >>

(* C8: when main has ended on a non-empty batch, it has shown a total equal *)
(* to the sum of the saved frames of the runs that ended Done, and every    *)
(* video, skipped and failed ones included, has its entry.                   *)
C8_Aggregation ==
    (MainTerminated /\ NonEmptyBatch)
    => /\ reported = <<SumOk>>
       /\ \A i \in Idx : Reported(i)

(* C9: main on a non-empty batch never ends before the archive step: its    *)
(* only end is the normal one, after the archive was written.               *)
C9_ReachesArchive ==
    (MainTerminated /\ NonEmptyBatch) => mpc = "done"

(* C10: in the second execution of main on the same batch and the same      *)
(* target_fps, each terminated run has written the same set of file names   *)
(* and counted the same number of saved frames as its run of the first      *)
(* execution, whatever the interleaving of the two executions.              *)
C10_Deterministic ==
    \A i \in Idx :
        (pass = 2 /\ Terminal(i))
        => /\ FileNames(i) = { w.file : w \in prev[i].written }
           /\ run[i].saved_frames = prev[i].saved_frames
           /\ run[i].state = prev[i].state

\* a re-run of two concurrent videos, both of which wrote files
C10_Witness ==
    /\ pass = 2
    /\ \E i, j \in Idx :
        /\ i # j
        /\ Terminal(i) /\ Terminal(j)
        /\ Cardinality(FileNames(i)) > 1
        /\ Cardinality(FileNames(j)) > 1

----------------------------------------------------------------------------
(* Vocabulary of the later properties *)

Archived == mpc \in {"download", "done"} /\ NonEmptyBatch

AllFileNames == UNION { FileNames(i) : i \in Idx }

\* e is the name {video_name}_frame_{floor(k / fps)}.jpg of a frame k that a
\* run of the batch kept
NamesKeptFrame(e) ==
    \E i \in Idx : \E w \in written[i] :
        /\ e.video_name = VideoName(VideoPath(uploaded_files[i]))
        /\ e.ts = PyFloorDiv(w.frame, uploaded_files[i].fps)

(* C11 as stated: once the archive is written, it has as many entries as    *)
(* the total of saved frames that main reported, each entry named after a   *)
(* kept frame of a submitted video.                                          *)
C11_OneEntryPerSavedFrame ==
    Archived
    => /\ Cardinality(archive) = reported[1]
       /\ \A e \in archive : NamesKeptFrame(e)

(* C11 as amended: once the archive is written, its entries are exactly the *)
(* distinct file names the runs wrote, each named after a kept frame of a   *)
(* submitted video, and their number is at most the reported total of saved *)
(* frames (kept frames that share a file name give one entry).              *)
C11_EntriesAreDistinctFileNames ==
    Archived
    => /\ archive = AllFileNames
       /\ Cardinality(archive) <= reported[1]
       /\ \A e \in archive : NamesKeptFrame(e)

\* an archive of two videos with fewer entries than saved frames
C11_Witness ==
    /\ Archived
    /\ Len(uploaded_files) = 2
    /\ archive # {}
    /\ Cardinality(archive) < reported[1]

(* C12: the progress update of an iteration never ends a run: no run on a   *)
(* video of usable frame rate, a position of 0 at open included, fails at   *)
(* the progress statement.                                                   *)
C12_ProgressNeverFails ==
    \A i \in Idx :
        uploaded_files[i].fps > 0 => run[i].raised # "progress"

(* C13: the run on a video of negative fps is skipped like one of fps 0: it *)
(* never scans, makes no read, writes no file and saves no frame.           *)
C13_NegativeFpsSkipped ==
    \A i \in Idx :
        uploaded_files[i].fps < 0
        => /\ run[i].state \in {"Idle", "Queued", "Skipped"}
           /\ reads[i] = 0
           /\ written[i] = {}
           /\ run[i].saved_frames = 0

(* C14: a kept frame whose resize or encode raises is skipped and the scan  *)
(* goes on: the run does not fail at the transform, such a frame is never   *)
(* written or counted, and the run still ends Done after its last frame.    *)
C14_TransformFailureSkipsFrame ==
    \A i \in Idx :
        /\ run[i].raised # "transform"
        /\ \A w \in written[i] : w.frame \notin uploaded_files[i].bad
        /\ (run[i].state = "Done"
               => run[i].frame_count = uploaded_files[i].frames)

\* the frames run i wrote under the file name fn
FramesUnder(i, fn) == { w.frame : w \in { x \in written[i] : x.file = fn } }

SetMax(S) == CHOOSE m \in S : \A k \in S : k <= m

(* C15: when a terminated run wrote two kept frames under one file name,    *)
(* the file of that name in the output folder holds that run's kept frame   *)
(* of the largest index among them.                                          *)
C15_LastWriteWins ==
    \A i \in Idx : \A fn \in FileNames(i) :
        ( /\ Terminal(i)
          /\ Cardinality(FramesUnder(i, fn)) > 1
          /\ fn \in DOMAIN files )
        => files[fn] = [video |-> i, frame |-> SetMax(FramesUnder(i, fn))]

(* C16: the frame index of a run is 0 until its first frame and equals the  *)
(* number of frames read and fully processed: every read so far while the   *)
(* run scans, every read but the last one (the read that found the end of   *)
(* the stream, or the frame whose iteration raised) once it has ended; and  *)
(* every frame written so far has an index below the index of the frame to  *)
(* be read next.                                                             *)
C16_IndexCountsFramesRead ==
    \A i \in Idx :
        /\ run[i].state \in {"Idle", "Queued", "Skipped"}
              => run[i].frame_count = 0 /\ reads[i] = 0
        /\ run[i].state = "Scanning"
              => /\ run[i].frame_count = reads[i]
                 /\ \A w \in written[i] : w.frame < run[i].frame_count
        /\ run[i].state \in {"Done", "Failed"}
              => /\ run[i].frame_count = reads[i] - 1
                 /\ \A w \in written[i] : w.frame <= run[i].frame_count

\* a scan that has passed frames it kept and frames it did not keep
C16_Witness ==
    \E i \in Idx :
        /\ run[i].state = "Scanning"
        /\ run[i].frame_count >= 3
        /\ written[i] # {}
        /\ Cardinality(written[i]) < run[i].frame_count

(* C17: no submitted run waits for another run to finish: a run that was    *)
(* submitted and has not started has a worker thread to start on.           *)
C17_NoRunWaits ==
    \A i \in Idx : run[i].state = "Queued" => WorkerFree(i)

(* C18: from the moment main has left the collecting loop, through the      *)
(* archive walk and after it, every submitted run has terminated, so no run *)
(* can still write into the output folder; and the archive written holds    *)
(* every file name any run wrote.                                            *)
C18_ArchiveAfterAllRuns ==
    /\ mpc \in {"report", "archive", "download", "done"}
          => \A i \in Idx : Terminal(i)
    /\ Archived => AllFileNames \subseteq archive

\* the archive of two runs that both wrote files
C18_Witness ==
    /\ mpc = "download"
    /\ \E i, j \in Idx :
          /\ i # j
          /\ written[i] # {} /\ written[j] # {}
          /\ FileNames(i) \cup FileNames(j) \subseteq archive

\* ceil(n / d), d # 0
CeilDiv(n, d) == -PyFloorDiv(-n, d)

\* the indices below frame_count that the keep test of the loop selects
SelectedBelow(i) ==
    { k \in 0..(run[i].frame_count - 1) :
        run[i].frame_interval # 0 /\ PyMod(k, run[i].frame_interval) = 0 }

(* C19: at the top of every iteration, and at the end of the stream, the    *)
(* saved-frame counter is the number of indices k below the frame index     *)
(* with k mod frame_interval = 0; a run that ended Done after N frames      *)
(* counted ceil(N / frame_interval) saved frames, and wrote no more         *)
(* distinct file names than that.                                            *)
C19_LoopInvariant ==
    \A i \in Idx :
        /\ run[i].state \in {"Scanning", "Done"}
              => run[i].saved_frames = Cardinality(SelectedBelow(i))
        /\ run[i].state = "Done"
              => /\ run[i].frame_interval # 0
                 /\ run[i].saved_frames =
                        CeilDiv(uploaded_files[i].frames, run[i].frame_interval)
                 /\ run[i].saved_frames >= Cardinality(FileNames(i))

====
